---- MODULE Spec2Model ----
(***************************************************************************)
(* OpenPayAI for Tempo: the paying agent (agent/agent.js), the licensing   *)
(* backend (backend/server.js) and the payment rail they talk to.          *)
(*                                                                         *)
(* An agent call is an async function: it runs from one await to the next  *)
(* without interruption, so every action below is one such segment.  A     *)
(* request to the backend is answered from the backend's state at the      *)
(* moment the action fires; the rail answers a transfer with success or    *)
(* failure, chosen by the environment.                                     *)
(*                                                                         *)
(* The ledger of content and licenses exists a second time, as the         *)
(* contract OpenPayAITempo (unnamed/part_001); SpecLedger exercises the     *)
(* backend's routes and the contract's functions on their own.             *)
(*                                                                         *)
(* Amounts are in units of 10000 of the smallest currency unit, times in   *)
(* days.                                                                   *)
(***************************************************************************)
EXTENDS Integers, Sequences, FiniteSets, TLC

\* ---------------------------------------------------------------- bounds
MaxCalls == 2          \* purchase calls started in one behaviour
MaxRegs  == 2          \* registration requests in one behaviour
MaxTicks == 1          \* clock advances in one behaviour
MaxBatch == 2          \* fingerprints in one purchaseBatch request
MaxPosts == 3          \* requests sent to the backend directly in one behaviour
MaxTxs   == 4          \* calls of the contract in one behaviour
MaxBlocks == 1         \* advances of block.timestamp in one behaviour

Hashes == {"fp1", "fp2"}
Prices == {3, 6, 7}
Slots  == {1, 2}       \* purchase calls of the agent that may be in flight

\* ------------------------------------------------------- program constants
maxPricePerItem    == 6
dailySpendingLimit == 10
oneDay             == 1
licensePeriod      == 30 * oneDay
agentAddress       == "agent"

\* OpenPayAITempo
owner      == "owner"          \* the contract's immutable owner
address0   == "0x0"            \* address(0)
thirtyDays == 30 * oneDay      \* 30 days
Accounts   == {owner, agentAddress}        \* msg.sender
NewPrices  == {0, 3, 6}                    \* prices given to the contract (uint256)
Limits     == {0, 5}                       \* daily limits given to the contract
URIs       == {"uri"}
RegPrices  == {-3, 0, 3, 6}                \* prices sent to the backend ("50000")

VARIABLES
    now,              \* Date.now()
    contentRegistry,  \* backend: contentHash -> entry
    licenses,         \* backend: global.licenses, <<agentAddress, contentHash>> -> license
    config,           \* agent: this.config (enableParallel, enableBatching)
    spentToday,       \* agent: this.spentToday
    lastReset,        \* agent: this.lastReset
    purchaseHistory,  \* agent: this.purchaseHistory
    calls,            \* agent: the purchase calls in flight, one per slot
    nCalls, nRegs, nTicks,
    response,         \* backend: the answer to the last request sent to it directly
    nPosts,
    memo,             \* agent: the last call of _encodeMemo made directly, and its result
    contract,         \* OpenPayAITempo: the contract's storage
    block,            \* the chain: block.timestamp
    receipt,          \* the chain: the outcome of the last call of the contract
    nTxs

\* the agent with the backend; what direct requests to the backend and
\* direct calls of the agent's helpers give; the chain
offchain == <<now, contentRegistry, licenses, config, spentToday, lastReset,
              purchaseHistory, calls, nCalls, nRegs, nTicks>>
requests == <<response, nPosts, memo>>
onchain  == <<contract, block, receipt, nTxs>>

vars == <<now, contentRegistry, licenses, config, spentToday, lastReset,
          purchaseHistory, calls, nCalls, nRegs, nTicks, requests, onchain>>

\* ---------------------------------------------------------------- helpers
RECURSIVE SumPrices(_)
SumPrices(infos) ==
    IF infos = <<>> THEN 0 ELSE Head(infos).price + SumPrices(Tail(infos))

RECURSIVE SelectIdx(_, _, _)
\* the elements s[k] (k >= from) whose index satisfies keep
SelectIdx(s, keep, from) ==
    IF from > Len(s) THEN <<>>
    ELSE (IF from \in keep THEN <<s[from]>> ELSE <<>>) \o SelectIdx(s, keep, from + 1)

BatchInputs == UNION {[1..n -> Hashes] : n \in 0..MaxBatch}

\* ---------------------------------------------------------------- backend
NoContent == [registered |-> FALSE, price |-> 0, active |-> FALSE,
              totalRevenue |-> 0, accessCount |-> 0]
NoLicense == [exists |-> FALSE, expiry |-> 0, pricePaid |-> 0]

\* the license taken as valid at the instant of its expiry
checkLicenseAtExpiry(agent, contentHash) ==
    LET license == licenses[<<agent, contentHash>>]
    IN  license.exists /\ license.expiry >= now

\* server.js checkLicense: the license, or null
checkLicense(agent, contentHash) ==
    LET license == licenses[<<agent, contentHash>>]
    IN  license.exists /\ license.expiry > now

\* POST /api/content/register
registerContent(contentHash, price) ==
    [contentRegistry EXCEPT ![contentHash] =
        [registered |-> TRUE, price |-> price, active |-> TRUE,
         totalRevenue |-> 0, accessCount |-> 0]]

\* POST /api/license/buy, the license it stores
buyLicense(lic, reg, agent, contentHash) ==
    [lic EXCEPT ![<<agent, contentHash>>] =
        [exists |-> TRUE, expiry |-> now + licensePeriod,
         pricePaid |-> reg[contentHash].price]]

\* the statistics update without the access count
buyStatsRevenueOnly(reg, contentHash) ==
    [reg EXCEPT ![contentHash].totalRevenue = @ + reg[contentHash].price]

\* the revenue written from a value read before another record was added
buyStatsLostUpdate(reg, contentHash) ==
    [reg EXCEPT ![contentHash].totalRevenue = reg[contentHash].price,
                ![contentHash].accessCount = @ + 1]

\* POST /api/license/buy, the content statistics it updates
buyStats(reg, contentHash) ==
    [reg EXCEPT ![contentHash].totalRevenue = @ + reg[contentHash].price,
                ![contentHash].accessCount = @ + 1]

\* POST /api/license/batch, one iteration of its loop
batchStats(reg, contentHash) ==
    [reg EXCEPT ![contentHash].totalRevenue = @ + reg[contentHash].price]

RECURSIVE batchLicenses(_, _, _, _)
batchLicenses(lic, reg, agent, contentHashes) ==
    IF contentHashes = <<>> THEN lic
    ELSE LET h == Head(contentHashes)
         IN  batchLicenses(IF reg[h].registered THEN buyLicense(lic, reg, agent, h) ELSE lic,
                           reg, agent, Tail(contentHashes))

RECURSIVE batchRegistry(_, _)
batchRegistry(reg, contentHashes) ==
    IF contentHashes = <<>> THEN reg
    ELSE LET h == Head(contentHashes)
         IN  batchRegistry(IF reg[h].registered THEN batchStats(reg, h) ELSE reg,
                           Tail(contentHashes))

\* ------------------------------------------------------------------ agent
\* A call in flight: its program counter, its arguments and locals, and what
\* it has done so far: rail, the transfers it has handed to the rail;
\* committed, what it has added to spentToday; appended, the records it has
\* pushed to purchaseHistory; notified, the fingerprints of the license-record
\* request it is waiting for; recorded, the licenses the backend has recorded
\* for it.
Idle == [pc |-> "idle", op |-> "none", hashes |-> <<>>, force |-> FALSE,
         atomic |-> FALSE, method |-> "none", i |-> 0, toPurchase |-> <<>>,
         contentInfos |-> <<>>, totalPrice |-> 0, contentHash |-> "",
         price |-> 0, purchases |-> <<>>, outcome |-> "none", error |-> "none",
         rail |-> <<>>, committed |-> 0, appended |-> 0, notified |-> <<>>,
         recorded |-> 0]

Active(s) == calls[s].pc \notin {"idle", "done"}

\* _resetDailySpendingIfNeeded
resetNeeded == now - lastReset > oneDay
spentAfterReset == IF resetNeeded THEN 0 ELSE spentToday
lastResetAfterReset == IF resetNeeded THEN now ELSE lastReset

\* getStats().totalPurchases
totalPurchases == Len(purchaseHistory)

\* the call ends: its locals go out of scope, what remains is what the caller
\* has: the arguments, and what the call returned or threw
Finish(c, outcome, error) ==
    [Idle EXCEPT !.pc = "done", !.op = c.op, !.hashes = c.hashes,
                 !.force = c.force, !.atomic = c.atomic, !.method = c.method,
                 !.outcome = outcome, !.error = error,
                 !.purchases = c.purchases]

\* the call throws: nothing is returned
Throw(c, error) == Finish([c EXCEPT !.purchases = <<>>], "threw", error)

\* the force flag taken as set whenever options are passed
ForcedByOptions(c) == c.op = "single"

\* the options purchaseLicense runs with: _purchaseSequential passes none
Forced(c) == c.op = "single" /\ c.force

\* purchaseLicense has returned result: the caller's continuation.
\* For purchaseLicense itself the call is over; _purchaseSequential pushes the
\* result and goes on to the next item, whose purchaseLicense starts with the
\* daily reset.
Returned(s, c, result) ==
    IF c.op = "single"
    THEN /\ calls' = [calls EXCEPT ![s] = Finish(c, result, "none")]
         /\ UNCHANGED <<spentToday, lastReset>>
    ELSE LET c1 == [c EXCEPT !.purchases = Append(@, result), !.notified = <<>>]
         IN  IF c.i < Len(c.contentInfos)
             THEN /\ calls' = [calls EXCEPT ![s] =
                        [c1 EXCEPT !.i = c.i + 1,
                                   !.contentHash = c.contentInfos[c.i + 1].hash,
                                   !.price = 0,
                                   !.pc = "hasLicense"]]
                  /\ spentToday' = spentAfterReset
                  /\ lastReset' = lastResetAfterReset
             ELSE /\ calls' = [calls EXCEPT ![s] = Finish(c1, "success", "none")]
                  /\ UNCHANGED <<spentToday, lastReset>>

\* ---------------------------------------------------------- the memo
\* Text is a sequence of character codes (ASCII), a hex value a sequence of
\* bytes.  The fingerprints have the characters of their names; full is a
\* 32-byte fingerprint written as hex, 66 characters.
full ==
    <<
       48, 120, 49, 50, 51, 52, 53, 54, 55, 56, 57, 48, 97, 98, 99,
       100, 101, 102, 49, 50, 51, 52, 53, 54, 55, 56, 57, 48, 97, 98,
       99, 100, 101, 102, 49, 50, 51, 52, 53, 54, 55, 56, 57, 48, 97,
       98, 99, 100, 101, 102, 49, 50, 51, 52, 53, 54, 55, 56, 57, 48,
       97, 98, 99, 100, 101, 102
    >>

\* "LICENSE:" and ":"
licenseColon == <<76, 73, 67, 69, 78, 83, 69, 58>>
colon == <<58>>

\* the day the agent is constructed, in days since 1970
startDay == 56 * 365

RECURSIVE toString(_)
\* `${n}`: the decimal digits of n
toString(n) ==
    IF n < 10 THEN <<48 + n>> ELSE toString(n \div 10) \o <<48 + (n % 10)>>

\* `${Date.now()}` on day t: the milliseconds since 1970 (a day has
\* 864 * 10^5 of them), thirteen digits
milliseconds(t) == toString(t * 864) \o <<48, 48, 48, 48, 48>>

\* String.prototype.slice(0, end)
slice(str, end) == SubSeq(str, 1, IF end < Len(str) THEN end ELSE Len(str))

\* viem stringToHex: the UTF-8 bytes of the text, one byte per ASCII character
stringToHex(str) == [k \in 1..Len(str) |-> str[k] % 256]

\* viem pad(hex, { size }): zero bytes on the left up to size bytes; a value
\* longer than size is not cut, pad throws SizeExceedsPaddingSizeError
pad(hex, size) ==
    IF Len(hex) > size THEN [threw |-> TRUE, bytes |-> <<>>]
    ELSE [threw |-> FALSE, bytes |-> [k \in 1..(size - Len(hex)) |-> 0] \o hex]

\* agent.js 482-486: _encodeMemo
encodeMemo(contentHash, timestamp, index) ==
    LET memoStr == licenseColon \o slice(contentHash, 20) \o colon
                   \o milliseconds(timestamp) \o colon \o toString(index)
    IN  pad(stringToHex(slice(memoStr, 64)), 32)

\* a 32-byte fingerprint, as the agent is given it
fullHash == "0x1234567890abcdef1234567890abcdef1234567890abcdef1234567890abcdef"

\* the characters of the fingerprints the agent is given
text(contentHash) ==
    CASE contentHash = "fp1" -> <<102, 112, 49>>
      [] contentHash = "fp2" -> <<102, 112, 50>>
      [] contentHash = "fp3" -> <<102, 112, 51>>
      [] contentHash = fullHash -> full

\* Date.now()
DateNow == startDay + now

\* _encodeMemo throws for this item (index counted from 0)
memoThrows(contentHash, index) == encodeMemo(text(contentHash), DateNow, index).threw

\* no call of _encodeMemo made directly yet
NoMemo == [called |-> FALSE, contentHash |-> <<>>, timestamp |-> 0, index |-> 0,
           result |-> [threw |-> FALSE, bytes |-> <<>>]]

\* --------------------------------------------------------- OpenPayAITempo
\* the zero values of the contract's mappings
NoEntry == [price |-> 0, contentOwner |-> address0, contentURI |-> "",
            active |-> FALSE, totalRevenue |-> 0, accessCount |-> 0]
NoLicenseOnChain == [expiry |-> 0, pricePaid |-> 0, active |-> FALSE]

\* no call of the contract yet; no direct request to the backend yet
NoReceipt  == [fn |-> "none", sender |-> address0, hashes |-> <<>>, price |-> 0,
               status |-> "none", result |-> FALSE, transfers |-> <<>>]
NoResponse == [route |-> "none", hashes |-> <<>>, status |-> 0, hasLicense |-> FALSE,
               results |-> <<>>, code |-> "", allowed |-> FALSE, price |-> 0,
               totalRevenue |-> 0, totalAccesses |-> 0,
               isAICrawler |-> FALSE, agent |-> "", proof |-> "none"]

\* ------------------------------------------------------------------- Init
\* the state after construction, for the fingerprints hashes and the
\* clients agents of the backend
InitWith(agents, hashes) ==
    /\ now = 0
    /\ contentRegistry = [h \in hashes |-> NoContent]
    /\ licenses = [k \in agents \X hashes |-> NoLicense]
    /\ config \in [enableParallel : BOOLEAN, enableBatching : BOOLEAN]
    /\ spentToday = 0
    /\ lastReset = 0
    /\ purchaseHistory = <<>>
    /\ calls = [s \in Slots |-> Idle]
    /\ nCalls = 0
    /\ nRegs = 0
    /\ nTicks = 0
    /\ response = NoResponse
    /\ nPosts = 0
    /\ memo = NoMemo
    /\ contract = [contentRegistry     |-> [h \in hashes |-> NoEntry],
                   licenses            |-> [k \in Accounts \X hashes |-> NoLicenseOnChain],
                   creatorContents     |-> [a \in Accounts |-> <<>>],
                   agentSpendingLimits |-> [a \in Accounts |-> 0],
                   agentSpentToday     |-> [a \in Accounts |-> 0],
                   lastResetDay        |-> 0]
    /\ block = [timestamp |-> 0, number |-> 0]
    /\ receipt = NoReceipt
    /\ nTxs = 0

\* the agent is the backend's only client
InitOver(hashes) == InitWith({agentAddress}, hashes)

Init == InitOver(Hashes)

\* ------------------------------------------------------------ environment
Tick(d) ==
    /\ nTicks < MaxTicks
    /\ now' = now + d
    /\ nTicks' = nTicks + 1
    /\ UNCHANGED <<contentRegistry, licenses, config, requests, onchain, spentToday, lastReset,
                   purchaseHistory, calls, nCalls, nRegs>>

Register(contentHash, price) ==
    /\ nRegs < MaxRegs
    /\ contentRegistry' = registerContent(contentHash, price)
    /\ nRegs' = nRegs + 1
    /\ UNCHANGED <<now, licenses, config, requests, onchain, spentToday, lastReset,
                   purchaseHistory, calls, nCalls, nTicks>>

\* -------------------------------------------------------- purchaseLicense
\* agent.js 117-123: the call starts, resets the window, asks for the license
StartPurchaseLicense(s, contentHash, force) ==
    /\ nCalls < MaxCalls
    /\ ~Active(s)
    /\ nCalls' = nCalls + 1
    /\ spentToday' = spentAfterReset
    /\ lastReset' = lastResetAfterReset
    /\ calls' = [calls EXCEPT ![s] =
            [Idle EXCEPT !.pc = "hasLicense", !.op = "single",
                         !.hashes = <<contentHash>>, !.force = force,
                         !.contentHash = contentHash]]
    /\ UNCHANGED <<now, contentRegistry, licenses, config, requests, onchain, purchaseHistory,
                   nRegs, nTicks>>

\* agent.js 123-130: the license check is answered
HasLicense(s) ==
    LET c == calls[s]
        hasLicense == checkLicense(agentAddress, c.contentHash)
    IN  /\ c.pc = "hasLicense"
        /\ IF hasLicense /\ ~Forced(c)
           THEN Returned(s, c, "skipped")
           ELSE /\ calls' = [calls EXCEPT ![s].pc = "checkContent"]
                /\ UNCHANGED <<spentToday, lastReset>>
        /\ UNCHANGED <<now, contentRegistry, licenses, config, requests, onchain, purchaseHistory,
                       nCalls, nRegs, nTicks>>

\* agent.js 130-161: the content query is answered, the limits are checked,
\* the memo is made and the transfer is submitted (on the default lane)
CheckContent(s) ==
    LET c == calls[s]
        content == contentRegistry[c.contentHash]
        price == content.price
    IN  /\ c.pc = "checkContent"
        /\ calls' = [calls EXCEPT ![s] =
              IF ~content.registered THEN Throw(c, "Content not found")
              ELSE IF price > maxPricePerItem THEN Throw(c, "Price exceeds max")
              ELSE IF spentToday + price > dailySpendingLimit
                   THEN Throw(c, "Daily spending limit would be exceeded")
              ELSE IF memoThrows(c.contentHash, 0)
                   THEN Throw(c, "Hex size exceeds padding size")
              ELSE [c EXCEPT !.pc = "transferSync", !.price = price,
                             !.rail = Append(@, [hash |-> c.contentHash, amount |-> price,
                                                    status |-> "pending", nonceKey |-> 0])]]
        /\ UNCHANGED <<now, contentRegistry, licenses, config, requests, onchain, spentToday,
                       lastReset, purchaseHistory, nCalls, nRegs, nTicks>>

\* agent.js 155-181: the rail confirms the transfer; the purchase is
\* recorded and the backend is notified
TransferConfirmed(s) ==
    LET c == calls[s]
    IN  /\ c.pc = "transferSync"
        /\ spentToday' = spentToday + c.price
        /\ purchaseHistory' = Append(purchaseHistory,
                                     [contentHash |-> c.contentHash, price |-> c.price])
        /\ calls' = [calls EXCEPT ![s] =
              [c EXCEPT !.pc = "buy",
                        !.rail[Len(c.rail)].status = "confirmed",
                        !.committed = @ + c.price,
                        !.appended = @ + 1,
                        !.notified = <<c.contentHash>>]]
        /\ UNCHANGED <<now, contentRegistry, licenses, config, requests, onchain, lastReset,
                       nCalls, nRegs, nTicks>>

\* agent.js 155, 192-195: transferSync throws
TransferFailed(s) ==
    LET c == calls[s]
    IN  /\ c.pc = "transferSync"
        /\ calls' = [calls EXCEPT ![s] =
              Throw(c, "Transfer failed")]
        /\ UNCHANGED <<now, contentRegistry, licenses, config, requests, onchain, spentToday,
                       lastReset, purchaseHistory, nCalls, nRegs, nTicks>>

\* server.js 298-343 and agent.js 183-191: the backend records the license
Buy(s) ==
    LET c == calls[s]
    IN  /\ c.pc = "buy"
        /\ IF contentRegistry[c.contentHash].registered
           THEN /\ licenses' = buyLicense(licenses, contentRegistry, agentAddress, c.contentHash)
                /\ contentRegistry' = buyStats(contentRegistry, c.contentHash)
                /\ Returned(s, [c EXCEPT !.recorded = @ + 1], "success")
           ELSE /\ calls' = [calls EXCEPT ![s] = Throw(c, "Request failed with status code 404")]
                /\ UNCHANGED <<licenses, contentRegistry, spentToday, lastReset>>
        /\ UNCHANGED <<now, config, requests, onchain, purchaseHistory, nCalls, nRegs, nTicks>>

\* ---------------------------------------------------------- purchaseBatch
\* agent.js 202-211: the call starts, resets the window and asks for the
\* license of the first fingerprint; with no fingerprint it returns at once
StartPurchaseBatch(s, contentHashes, force, atomic) ==
    /\ nCalls < MaxCalls
    /\ ~Active(s)
    /\ nCalls' = nCalls + 1
    /\ spentToday' = spentAfterReset
    /\ lastReset' = lastResetAfterReset
    /\ calls' = [calls EXCEPT ![s] =
          LET c == [Idle EXCEPT !.op = "batch", !.hashes = contentHashes,
                                !.force = force, !.atomic = atomic]
          IN  IF contentHashes = <<>> THEN Finish(c, "skipped", "none")
              ELSE [c EXCEPT !.pc = "filter", !.i = 1]]
    /\ UNCHANGED <<now, contentRegistry, licenses, config, requests, onchain, purchaseHistory,
                   nRegs, nTicks>>

\* the filter loop keeping every fingerprint, licensed or not
FilterKeepsAll(s) ==
    LET c == calls[s]
        hash == c.hashes[c.i]
        toPurchase == Append(c.toPurchase, hash)
    IN  /\ c.pc = "filter"
        /\ calls' = [calls EXCEPT ![s] =
              IF c.i < Len(c.hashes)
              THEN [c EXCEPT !.toPurchase = toPurchase, !.i = c.i + 1]
              ELSE [c EXCEPT !.toPurchase = toPurchase, !.i = 1, !.pc = "lookup"]]
        /\ UNCHANGED <<now, contentRegistry, licenses, config, requests, onchain, spentToday,
                       lastReset, purchaseHistory, nCalls, nRegs, nTicks>>

\* agent.js 208-220: one license check of the filter loop is answered
Filter(s) ==
    LET c == calls[s]
        hash == c.hashes[c.i]
        hasLicense == checkLicense(agentAddress, hash)
        toPurchase == IF ~hasLicense \/ c.force THEN Append(c.toPurchase, hash)
                      ELSE c.toPurchase
    IN  /\ c.pc = "filter"
        /\ calls' = [calls EXCEPT ![s] =
              IF c.i < Len(c.hashes)
              THEN [c EXCEPT !.toPurchase = toPurchase, !.i = c.i + 1]
              ELSE IF toPurchase = <<>> THEN Finish(c, "skipped", "none")
              ELSE [c EXCEPT !.toPurchase = toPurchase, !.i = 1, !.pc = "lookup"]]
        /\ UNCHANGED <<now, contentRegistry, licenses, config, requests, onchain, spentToday,
                       lastReset, purchaseHistory, nCalls, nRegs, nTicks>>

\* the parallel strategy whenever it is enabled, atomic requested or not
strategyParallelFirst(c) ==
    IF config.enableParallel THEN "parallel"
    ELSE IF config.enableBatching THEN "atomic-batch"
    ELSE "sequential"

\* agent.js 243-254: the strategy purchaseBatch runs
strategy(c) ==
    IF config.enableParallel /\ ~c.atomic THEN "parallel"
    ELSE IF config.enableBatching THEN "atomic-batch"
    ELSE "sequential"

\* CONFIG.TOKENS.alphaUsd
alphaUsd == "0x20c0000000000000000000000000000000000001"

\* agent.js 491-495: _encodeTransferCall returns '0x', a hex value of no bytes
encodeTransferCall(to, amount, transferMemo) == <<>>

\* the transfers of a bundle (agent.js 335-348), on the default lane: hash
\* and amount are the item each instruction is made for, to and data are
\* the instruction handed to sendTransaction; content is registered with
\* ownerAddress owner
submitAll(contentInfos) ==
    [k \in 1..Len(contentInfos) |->
        [hash |-> contentInfos[k].hash, amount |-> contentInfos[k].price,
         status |-> "pending", nonceKey |-> 0,
         to |-> alphaUsd,
         data |-> encodeTransferCall(owner, contentInfos[k].price,
                     encodeMemo(text(contentInfos[k].hash), DateNow, k - 1).bytes)]]

\* every transfer on the default lane
nonceKeyDefault(index) == 0

\* agent.js 280: the lane of the item with this index (counted from 0)
nonceKey(index) == index + 1

\* the items whose memo cannot be made
memoFailures(contentInfos) ==
    {k \in 1..Len(contentInfos) : memoThrows(contentInfos[k].hash, k - 1)}

\* agent.js 268-281: the callbacks of contentInfos.map run one after another
\* up to their first await; each makes its memo and hands its transfer to
\* the rail.  A callback whose memo cannot be made hands over nothing.
submitParallel(contentInfos) ==
    SelectIdx([k \in 1..Len(contentInfos) |->
                  [hash |-> contentInfos[k].hash, amount |-> contentInfos[k].price,
                   status |-> "pending", nonceKey |-> nonceKey(k - 1)]],
              (1..Len(contentInfos)) \ memoFailures(contentInfos), 1)

\* the batch total checked against the whole limit, not what is left of it
batchExceedsLimit(totalPrice) == totalPrice > dailySpendingLimit

\* agent.js 235-238: the daily limit, checked against the batch total
batchExceeds(totalPrice) == totalPrice > dailySpendingLimit - spentToday

\* agent.js 226-254 (and 265-281, 327-348, 393-398): one content query of
\* the price loop is answered; after the last one the total is checked and
\* the strategy starts.  In the parallel strategy a memo that cannot be made
\* rejects its promise, so Promise.all rejects and the call throws at once
\* (255-258), with the transfers of the other items handed to the rail.
Lookup(s) ==
    LET c == calls[s]
        hash == c.toPurchase[c.i]
        content == contentRegistry[hash]
        totalPrice == IF content.registered THEN c.totalPrice + content.price
                      ELSE c.totalPrice
        contentInfos == IF content.registered
                        THEN Append(c.contentInfos, [hash |-> hash, price |-> content.price])
                        ELSE c.contentInfos
        c1 == [c EXCEPT !.totalPrice = totalPrice, !.contentInfos = contentInfos]
        method == strategy(c)
        c2 == [c1 EXCEPT !.method = method]
    IN  /\ c.pc = "lookup"
        /\ IF c.i < Len(c.toPurchase)
           THEN /\ calls' = [calls EXCEPT ![s] = [c1 EXCEPT !.i = c.i + 1]]
                /\ UNCHANGED <<spentToday, lastReset>>
           ELSE IF batchExceeds(totalPrice)
           THEN /\ calls' = [calls EXCEPT ![s] =
                      Throw(c1, "Batch would exceed daily spending limit")]
                /\ UNCHANGED <<spentToday, lastReset>>
           ELSE IF method = "parallel"
           THEN /\ calls' = [calls EXCEPT ![s] =
                      IF contentInfos = <<>> THEN Finish(c2, "success", "none")
                      ELSE IF memoFailures(contentInfos) # {}
                      THEN [Throw(c2, "Hex size exceeds padding size") EXCEPT
                               !.rail = submitParallel(contentInfos)]
                      ELSE [c2 EXCEPT !.pc = "parallel", !.i = 0,
                                      !.rail = submitParallel(contentInfos),
                                      !.purchases = [k \in 1..Len(contentInfos) |-> "pending"]]]
                /\ UNCHANGED <<spentToday, lastReset>>
           ELSE IF method = "atomic-batch"
           THEN /\ calls' = [calls EXCEPT ![s] =
                      IF memoFailures(contentInfos) # {}
                      THEN Throw(c2, "Hex size exceeds padding size")
                      ELSE [c2 EXCEPT !.pc = "sendTransaction", !.i = 0,
                                      !.rail = submitAll(contentInfos)]]
                /\ UNCHANGED <<spentToday, lastReset>>
           ELSE IF contentInfos = <<>>
           THEN /\ calls' = [calls EXCEPT ![s] = Finish(c2, "success", "none")]
                /\ UNCHANGED <<spentToday, lastReset>>
           ELSE /\ calls' = [calls EXCEPT ![s] =
                      [c2 EXCEPT !.pc = "hasLicense", !.i = 1,
                                 !.contentHash = contentInfos[1].hash]]
                /\ spentToday' = spentAfterReset
                /\ lastReset' = lastResetAfterReset
        /\ UNCHANGED <<now, contentRegistry, licenses, config, requests, onchain, purchaseHistory,
                       nCalls, nRegs, nTicks>>

\* -------------------------------------------------------- _purchaseParallel
Successful(purchases) == {k \in 1..Len(purchases) : purchases[k] = "success"}

\* the hashes of all purchases, successful or not
attemptedHashes(contentInfos, purchases) ==
    [k \in 1..Len(contentInfos) |-> contentInfos[k].hash]

\* the hashes of the successful purchases, in order (agent.js 303-306)
successfulHashes(contentInfos, purchases) ==
    LET s == SelectIdx(contentInfos, Successful(purchases), 1)
    IN  [k \in 1..Len(s) |-> s[k].hash]

\* agent.js 302-320: every transfer has an outcome, Promise.all resolves
joined(c) ==
    IF \E k \in 1..Len(c.purchases) : c.purchases[k] = "pending" THEN c
    ELSE IF Successful(c.purchases) = {} THEN Finish(c, "success", "none")
    ELSE [c EXCEPT !.pc = "notifyBatch",
                   !.notified = successfulHashes(c.contentInfos, c.purchases)]

\* agent.js 274-290: the rail confirms the transfer of item k
ParallelConfirmed(s, k) ==
    LET c == calls[s]
    IN  /\ c.pc = "parallel"
        /\ k \in 1..Len(c.rail)
        /\ c.rail[k].status = "pending"
        /\ spentToday' = spentToday + c.contentInfos[k].price
        /\ calls' = [calls EXCEPT ![s] =
              joined([c EXCEPT !.rail[k].status = "confirmed",
                               !.purchases[k] = "success",
                               !.committed = @ + c.contentInfos[k].price])]
        /\ UNCHANGED <<now, contentRegistry, licenses, config, requests, onchain, lastReset,
                       purchaseHistory, nCalls, nRegs, nTicks>>

\* agent.js 291-298: the transfer of item k fails
ParallelFailed(s, k) ==
    LET c == calls[s]
    IN  /\ c.pc = "parallel"
        /\ k \in 1..Len(c.rail)
        /\ c.rail[k].status = "pending"
        /\ calls' = [calls EXCEPT ![s] =
              joined([c EXCEPT !.rail[k].status = "failed",
                               !.purchases[k] = "failed"])]
        /\ UNCHANGED <<now, contentRegistry, licenses, config, requests, onchain, spentToday,
                       lastReset, purchaseHistory, nCalls, nRegs, nTicks>>

\* agent.js 274-284: the rail confirms the transfer of item k after the call
\* has thrown; the callback goes on and adds the price to spentToday
ParallelConfirmedLate(s, k) ==
    LET c == calls[s]
    IN  /\ c.pc = "done"
        /\ k \in 1..Len(c.rail)
        /\ c.rail[k].status = "pending"
        /\ spentToday' = spentToday + c.rail[k].amount
        /\ calls' = [calls EXCEPT ![s] =
              [c EXCEPT !.rail[k].status = "confirmed",
                        !.committed = @ + c.rail[k].amount]]
        /\ UNCHANGED <<now, contentRegistry, licenses, config, requests, onchain, lastReset,
                       purchaseHistory, nCalls, nRegs, nTicks>>

\* agent.js 291-298: the transfer of item k fails after the call has thrown
ParallelFailedLate(s, k) ==
    LET c == calls[s]
    IN  /\ c.pc = "done"
        /\ k \in 1..Len(c.rail)
        /\ c.rail[k].status = "pending"
        /\ calls' = [calls EXCEPT ![s].rail[k].status = "failed"]
        /\ UNCHANGED <<now, contentRegistry, licenses, config, requests, onchain, spentToday,
                       lastReset, purchaseHistory, nCalls, nRegs, nTicks>>

\* server.js 349-401 and agent.js 312-320, 378-387: the backend records the
\* licenses of a batch; an empty list is answered with status 400
NotifyBatch(s) ==
    LET c == calls[s]
    IN  /\ c.pc = "notifyBatch"
        /\ IF c.notified = <<>>
           THEN /\ calls' = [calls EXCEPT ![s] = Throw(c, "Request failed with status code 400")]
                /\ UNCHANGED <<licenses, contentRegistry>>
           ELSE /\ licenses' = batchLicenses(licenses, contentRegistry, agentAddress, c.notified)
                /\ contentRegistry' = batchRegistry(contentRegistry, c.notified)
                /\ calls' = [calls EXCEPT ![s] = Finish(c, "success", "none")]
        /\ UNCHANGED <<now, config, requests, onchain, spentToday, lastReset, purchaseHistory,
                       nCalls, nRegs, nTicks>>

\* ----------------------------------------------------- _purchaseBatchAtomic
allStatus(rail, status) == [k \in 1..Len(rail) |-> [rail[k] EXCEPT !.status = status]]

\* agent.js 345-350: the rail accepts the bundle
SendTransaction(s) ==
    LET c == calls[s]
    IN  /\ c.pc = "sendTransaction"
        /\ calls' = [calls EXCEPT ![s].pc = "waitReceipt"]
        /\ UNCHANGED <<now, contentRegistry, licenses, config, requests, onchain, spentToday,
                       lastReset, purchaseHistory, nCalls, nRegs, nTicks>>

\* agent.js 345: the rail rejects the bundle, sendTransaction throws
SendTransactionRejected(s) ==
    LET c == calls[s]
    IN  /\ c.pc = "sendTransaction"
        /\ calls' = [calls EXCEPT ![s] =
              Throw(c, "Transaction rejected")]
        /\ UNCHANGED <<now, contentRegistry, licenses, config, requests, onchain, spentToday,
                       lastReset, purchaseHistory, nCalls, nRegs, nTicks>>

\* the purchase records of an atomic batch (agent.js 361-367)
batchPurchases(contentInfos) ==
    [k \in 1..Len(contentInfos) |->
        [contentHash |-> contentInfos[k].hash, price |-> contentInfos[k].price]]

\* agent.js 350-376: the receipt says success; spending and history are
\* updated and the backend is notified
ReceiptSuccess(s) ==
    LET c == calls[s]
        totalPrice == SumPrices(c.contentInfos)
    IN  /\ c.pc = "waitReceipt"
        /\ spentToday' = spentToday + totalPrice
        /\ purchaseHistory' = purchaseHistory \o batchPurchases(c.contentInfos)
        /\ calls' = [calls EXCEPT ![s] =
              [c EXCEPT !.pc = "notifyBatch",
                        !.rail = allStatus(c.rail, "confirmed"),
                        !.committed = @ + totalPrice,
                        !.appended = @ + Len(c.contentInfos),
                        !.notified = [k \in 1..Len(c.contentInfos) |-> c.contentInfos[k].hash]]]
        /\ UNCHANGED <<now, contentRegistry, licenses, config, requests, onchain, lastReset,
                       nCalls, nRegs, nTicks>>

\* the receipt's status is not looked at: a reverted bundle is taken as paid
ReceiptStatusIgnored(s) ==
    LET c == calls[s]
        totalPrice == SumPrices(c.contentInfos)
    IN  /\ c.pc = "waitReceipt"
        /\ spentToday' = spentToday + totalPrice
        /\ purchaseHistory' = purchaseHistory \o batchPurchases(c.contentInfos)
        /\ calls' = [calls EXCEPT ![s] =
              [c EXCEPT !.pc = "notifyBatch",
                        !.rail = allStatus(c.rail, "failed"),
                        !.committed = @ + totalPrice,
                        !.appended = @ + Len(c.contentInfos),
                        !.notified = [k \in 1..Len(c.contentInfos) |-> c.contentInfos[k].hash]]]
        /\ UNCHANGED <<now, contentRegistry, licenses, config, requests, onchain, lastReset,
                       nCalls, nRegs, nTicks>>

\* agent.js 352-354: the receipt says the bundle reverted
ReceiptReverted(s) ==
    LET c == calls[s]
    IN  /\ c.pc = "waitReceipt"
        /\ calls' = [calls EXCEPT ![s] =
              Throw(c, "Batch transaction failed")]
        /\ UNCHANGED <<now, contentRegistry, licenses, config, requests, onchain, spentToday,
                       lastReset, purchaseHistory, nCalls, nRegs, nTicks>>

\* ------------------------------------------------------------------- Next
\* the steps of the calls in flight
CallStep ==
    \/ \E s \in Slots : HasLicense(s)
    \/ \E s \in Slots : CheckContent(s)
    \/ \E s \in Slots : TransferConfirmed(s)
    \/ \E s \in Slots : TransferFailed(s)
    \/ \E s \in Slots : Buy(s)
    \/ \E s \in Slots : Filter(s)
    \/ \E s \in Slots : Lookup(s)
    \/ \E s \in Slots, k \in 1..(MaxBatch + 1) : ParallelConfirmed(s, k)
    \/ \E s \in Slots, k \in 1..(MaxBatch + 1) : ParallelFailed(s, k)
    \/ \E s \in Slots : NotifyBatch(s)
    \/ \E s \in Slots : SendTransaction(s)
    \/ \E s \in Slots : SendTransactionRejected(s)
    \/ \E s \in Slots : ReceiptSuccess(s)
    \/ \E s \in Slots : ReceiptReverted(s)

\* the agent's calls run one after another: a call starts when none is in flight
Next ==
    \/ \E d \in {oneDay, licensePeriod} : Tick(d)
    \/ \E h \in Hashes, p \in Prices : Register(h, p)
    \/ CallStep
    \/ \E h \in Hashes, f \in BOOLEAN :
          (\A t \in Slots : ~Active(t)) /\ StartPurchaseLicense(1, h, f)
    \/ \E hs \in BatchInputs, f \in BOOLEAN, a \in BOOLEAN :
          (\A t \in Slots : ~Active(t)) /\ StartPurchaseBatch(1, hs, f, a)

Spec == Init /\ [][Next]_vars

\* the agent's calls may overlap within one spending window: while a call
\* (purchaseLicense or purchaseBatch) is in flight, a purchaseLicense call
\* starts; content is registered between calls
NextOverlap ==
    \/ \E h \in Hashes, p \in Prices :
          (\A t \in Slots : ~Active(t)) /\ Register(h, p)
    \/ CallStep
    \/ \E s \in Slots, h \in Hashes, f \in BOOLEAN :
          (\A t \in Slots : t < s => Active(t)) /\ StartPurchaseLicense(s, h, f)
    \/ \E hs \in BatchInputs, f \in BOOLEAN, a \in BOOLEAN :
          StartPurchaseBatch(1, hs, f, a)

SpecOverlap == Init /\ [][NextOverlap]_vars

\* one purchaseBatch call for three different fingerprints, content
\* registered before
Hashes3 == Hashes \cup {"fp3"}
BatchInputs3 ==
    {hs \in [1..Cardinality(Hashes3) -> Hashes3] :
        \A j, k \in DOMAIN hs : hs[j] = hs[k] => j = k}

InitBatch3 == InitOver(Hashes3)

NextBatch3 ==
    \/ \E h \in Hashes3, p \in Prices : nCalls = 0 /\ Register(h, p)
    \/ CallStep
    \/ \E hs \in BatchInputs3, f \in BOOLEAN, a \in BOOLEAN :
          nCalls = 0 /\ StartPurchaseBatch(1, hs, f, a)

SpecBatch3 == InitBatch3 /\ [][NextBatch3]_vars

\* the license-record request fails (no answer, or an answer with an error
\* status for another reason than those above): axios.post rejects
\* the amount taken back from spentToday when the request fails
BuyFailedRollsBack(s) ==
    LET c == calls[s]
    IN  /\ c.pc = "buy"
        /\ spentToday' = spentToday - c.price
        /\ calls' = [calls EXCEPT ![s] = Throw(c, "Network Error")]
        /\ UNCHANGED <<now, contentRegistry, licenses, config, requests, onchain, lastReset,
                       purchaseHistory, nCalls, nRegs, nTicks>>

\* agent.js 172-177, 192-195: the request of purchaseLicense fails; the
\* error is rethrown
BuyFailed(s) ==
    LET c == calls[s]
    IN  /\ c.pc = "buy"
        /\ calls' = [calls EXCEPT ![s] = Throw(c, "Network Error")]
        /\ UNCHANGED <<now, contentRegistry, licenses, config, requests, onchain, spentToday,
                       lastReset, purchaseHistory, nCalls, nRegs, nTicks>>

\* agent.js 304-310, 371-376, 255-258: the request of a batch fails
NotifyBatchFailed(s) ==
    LET c == calls[s]
    IN  /\ c.pc = "notifyBatch"
        /\ calls' = [calls EXCEPT ![s] = Throw(c, "Network Error")]
        /\ UNCHANGED <<now, contentRegistry, licenses, config, requests, onchain, spentToday,
                       lastReset, purchaseHistory, nCalls, nRegs, nTicks>>

\* the agent's calls, one after another, with license-record requests that
\* may fail
NextCallback ==
    \/ Next
    \/ \E s \in Slots : BuyFailed(s)
    \/ \E s \in Slots : NotifyBatchFailed(s)

SpecCallback == Init /\ [][NextCallback]_vars

\* one purchase call for fingerprints of different length: a short one and a
\* full one; content registered before
HashesLong == {"fp1", fullHash}
BatchInputsLong == UNION {[1..n -> HashesLong] : n \in 1..MaxBatch}

InitLong == InitOver(HashesLong)

NextLong ==
    \/ \E h \in HashesLong, p \in Prices : nCalls = 0 /\ Register(h, p)
    \/ CallStep
    \/ \E s \in Slots, k \in 1..MaxBatch : ParallelConfirmedLate(s, k)
    \/ \E s \in Slots, k \in 1..MaxBatch : ParallelFailedLate(s, k)
    \/ \E h \in HashesLong, f \in BOOLEAN :
          nCalls = 0 /\ StartPurchaseLicense(1, h, f)
    \/ \E hs \in BatchInputsLong, f \in BOOLEAN, a \in BOOLEAN :
          nCalls = 0 /\ StartPurchaseBatch(1, hs, f, a)

SpecLong == InitLong /\ [][NextLong]_vars

\* ------------------------------------------- backend, requested directly
\* The backend's routes answer any client.  A request sent to a route
\* directly (not by the agent's calls above) is one action.

\* server.js 298-343: POST /api/license/buy
PostLicenseBuy(agent, contentHash) ==
    /\ nPosts < MaxPosts
    /\ nPosts' = nPosts + 1
    /\ IF contentRegistry[contentHash].registered
       THEN /\ licenses' = buyLicense(licenses, contentRegistry, agent, contentHash)
            /\ contentRegistry' = buyStats(contentRegistry, contentHash)
            /\ response' = [NoResponse EXCEPT !.route = "buy", !.hashes = <<contentHash>>,
                                              !.status = 200, !.results = <<TRUE>>]
       ELSE /\ response' = [NoResponse EXCEPT !.route = "buy", !.hashes = <<contentHash>>,
                                              !.status = 404]
            /\ UNCHANGED <<licenses, contentRegistry>>
    /\ UNCHANGED <<now, config, spentToday, lastReset, purchaseHistory, calls,
                   nCalls, nRegs, nTicks, memo, onchain>>

\* server.js 349-401: POST /api/license/batch
PostLicenseBatch(agent, contentHashes) ==
    /\ nPosts < MaxPosts
    /\ nPosts' = nPosts + 1
    /\ IF contentHashes = <<>>
       THEN /\ response' = [NoResponse EXCEPT !.route = "batch", !.status = 400]
            /\ UNCHANGED <<licenses, contentRegistry>>
       ELSE /\ licenses' = batchLicenses(licenses, contentRegistry, agent, contentHashes)
            /\ contentRegistry' = batchRegistry(contentRegistry, contentHashes)
            /\ response' = [NoResponse EXCEPT
                              !.route = "batch", !.hashes = contentHashes, !.status = 200,
                              !.results = [k \in 1..Len(contentHashes) |->
                                              contentRegistry[contentHashes[k]].registered]]
    /\ UNCHANGED <<now, config, spentToday, lastReset, purchaseHistory, calls,
                   nCalls, nRegs, nTicks, memo, onchain>>

\* server.js 407-420: GET /api/license/check
GetLicenseCheck(agent, contentHash) ==
    /\ nPosts < MaxPosts
    /\ nPosts' = nPosts + 1
    /\ response' = [NoResponse EXCEPT !.route = "check", !.hashes = <<contentHash>>,
                                      !.status = 200,
                                      !.hasLicense = checkLicense(agent, contentHash)]
    /\ UNCHANGED <<offchain, memo, onchain>>

\* server.js 171-188: GET /api/content/:contentHash
GetContent(contentHash) ==
    LET content == contentRegistry[contentHash]
    IN  /\ nPosts < MaxPosts
        /\ nPosts' = nPosts + 1
        /\ response' =
              IF ~content.registered
              THEN [NoResponse EXCEPT !.route = "content", !.hashes = <<contentHash>>,
                                      !.status = 404]
              ELSE [NoResponse EXCEPT !.route = "content", !.hashes = <<contentHash>>,
                                      !.status = 200, !.price = content.price,
                                      !.totalRevenue = content.totalRevenue,
                                      !.totalAccesses = content.accessCount]
        /\ UNCHANGED <<offchain, memo, onchain>>

\* what a request to the access route presents: signature and timestamp
\* missing, or given with a timestamp within 300 s of the backend's clock
\* ("fresh") or further off ("stale"); no agentAddress is ""
Proofs == {"none", "fresh", "stale"}
Payers == {agentAddress, "agent2", "agent3"}
Clients == {agentAddress, "agent2"}

\* no proof is ever taken as expired
expiredNever(proof) == FALSE

\* server.js 236-244: signature and timestamp are given and the timestamp is
\* more than 300 s off
expired(proof) == proof = "stale"

\* a signature that the key of the identity presented did not make, given
\* with a timestamp within 300 s
Signatures == Proofs \cup {"forged"}

\* server.js 236, 246-250: signature and timestamp are given; the signature
\* is not looked at, the license is looked up
verified(proof) == proof \in {"fresh", "forged"}

\* server.js 262: content.accessCount++
accessStats(reg, contentHash) ==
    [reg EXCEPT ![contentHash].accessCount = @ + 1]

\* server.js 194-292 (103-111): POST /api/content/:contentHash/access
PostAccess(contentHash, isAICrawler, agent, proof) ==
    LET content == contentRegistry[contentHash]
        answer == [NoResponse EXCEPT !.route = "access", !.hashes = <<contentHash>>,
                                     !.isAICrawler = isAICrawler, !.agent = agent,
                                     !.proof = proof]
    IN  /\ nPosts < MaxPosts
        /\ nPosts' = nPosts + 1
        /\ IF ~content.registered
           THEN /\ response' = [answer EXCEPT !.status = 404, !.code = "CONTENT_NOT_FOUND"]
                /\ UNCHANGED contentRegistry
           ELSE IF ~content.active
           THEN /\ response' = [answer EXCEPT !.status = 403, !.code = "CONTENT_INACTIVE"]
                /\ UNCHANGED contentRegistry
           ELSE IF ~isAICrawler
           THEN /\ response' = [answer EXCEPT !.status = 200, !.allowed = TRUE]
                /\ UNCHANGED contentRegistry
           ELSE IF agent = ""
           THEN /\ response' = [answer EXCEPT !.status = 402, !.code = "PAYMENT_REQUIRED",
                                               !.price = content.price]
                /\ UNCHANGED contentRegistry
           ELSE IF expired(proof)
           THEN /\ response' = [answer EXCEPT !.status = 403, !.code = "SIGNATURE_EXPIRED"]
                /\ UNCHANGED contentRegistry
           ELSE IF verified(proof) /\ checkLicense(agent, contentHash)
           THEN /\ response' = [answer EXCEPT !.status = 200, !.allowed = TRUE,
                                               !.hasLicense = TRUE]
                /\ contentRegistry' = accessStats(contentRegistry, contentHash)
           ELSE /\ response' = [answer EXCEPT !.status = 402, !.code = "LICENSE_REQUIRED",
                                               !.price = content.price]
                /\ UNCHANGED contentRegistry
        /\ UNCHANGED <<now, licenses, config, spentToday, lastReset, purchaseHistory, calls,
                       nCalls, nRegs, nTicks, memo, onchain>>

RECURSIVE sumOver(_, _, _)
\* contents.reduce((sum, c) => sum + c[field], 0)
sumOver(reg, contents, field) ==
    IF contents = {} THEN 0
    ELSE LET h == CHOOSE x \in contents : TRUE
         IN  reg[h][field] + sumOver(reg, contents \ {h}, field)

\* server.js 426-447: GET /api/creator/:address/stats; all content is
\* registered with ownerAddress owner
GetCreatorStats(address) ==
    LET contents == {h \in DOMAIN contentRegistry :
                        contentRegistry[h].registered /\ address = owner}
    IN  /\ nPosts < MaxPosts
        /\ nPosts' = nPosts + 1
        /\ response' = [NoResponse EXCEPT
                          !.route = "stats", !.status = 200,
                          !.totalRevenue = sumOver(contentRegistry, contents, "totalRevenue"),
                          !.totalAccesses = sumOver(contentRegistry, contents, "accessCount")]
        /\ UNCHANGED <<offchain, memo, onchain>>

\* server.js 453-472: GET /api/analytics/overview
GetAnalyticsOverview ==
    LET contents == {h \in DOMAIN contentRegistry : contentRegistry[h].registered}
    IN  /\ nPosts < MaxPosts
        /\ nPosts' = nPosts + 1
        /\ response' = [NoResponse EXCEPT
                          !.route = "overview", !.status = 200,
                          !.totalRevenue = sumOver(contentRegistry, contents, "totalRevenue"),
                          !.totalAccesses = sumOver(contentRegistry, contents, "accessCount")]
        /\ UNCHANGED <<offchain, memo, onchain>>

\* the backend with several clients: every route, requested by any of them
InitGateway ==
    /\ InitWith(Payers, Hashes)
    /\ config = [enableParallel |-> TRUE, enableBatching |-> TRUE]

NextGateway ==
    \/ \E d \in {oneDay, licensePeriod} : Tick(d)
    \/ \E h \in Hashes, p \in Prices : Register(h, p)
    \/ \E a \in Clients, h \in Hashes : PostLicenseBuy(a, h)
    \/ \E a \in Clients, hs \in BatchInputs : PostLicenseBatch(a, hs)
    \/ \E a \in Clients, h \in Hashes : GetLicenseCheck(a, h)
    \/ \E h \in Hashes : GetContent(h)
    \/ \E h \in Hashes, u \in BOOLEAN, a \in Clients \cup {""}, p \in Proofs :
          PostAccess(h, u, a, p)
    \/ \E a \in {owner, agentAddress} : GetCreatorStats(a)
    \/ GetAnalyticsOverview

SpecGateway == InitGateway /\ [][NextGateway]_vars

\* the access route asked with any signature, for content that clients buy
\* licenses for
NextForged ==
    \/ \E d \in {oneDay, licensePeriod} : Tick(d)
    \/ \E h \in Hashes, p \in Prices : Register(h, p)
    \/ \E a \in Clients, h \in Hashes : PostLicenseBuy(a, h)
    \/ \E h \in Hashes, u \in BOOLEAN, a \in Clients \cup {""}, p \in Signatures :
          PostAccess(h, u, a, p)

SpecForged == InitGateway /\ [][NextForged]_vars

\* license records of different clients for content registered once: a
\* client records a license for a fingerprint it has none for
NextRecords ==
    \/ \E h \in Hashes, p \in Prices :
          ~contentRegistry[h].registered /\ nPosts = 0 /\ Register(h, p)
    \/ \E a \in Payers, h \in Hashes :
          /\ contentRegistry[h].registered /\ ~licenses[<<a, h>>].exists
          /\ PostLicenseBuy(a, h)
    \/ \E a \in Payers, h \in Hashes :
          /\ contentRegistry[h].registered /\ ~licenses[<<a, h>>].exists
          /\ PostLicenseBatch(a, <<h>>)

SpecRecords == InitGateway /\ [][NextRecords]_vars

\* ----------------------------------------------- _encodeMemo, called directly
\* fingerprints of every length up to a full one; the days and the item
\* indexes a memo is made for
FingerprintLens == {0, 1, 3, 7, 8, 9, 19, 20, 21, 66}
Fingerprints == {slice(full, n) : n \in FingerprintLens}
MemoDays    == {startDay, startDay + oneDay, startDay + licensePeriod}
MemoIndexes == {0, 1, 9, 10}

EncodeMemo(contentHash, timestamp, index) ==
    /\ memo' = [called |-> TRUE, contentHash |-> contentHash, timestamp |-> timestamp,
                index |-> index, result |-> encodeMemo(contentHash, timestamp, index)]
    /\ UNCHANGED <<offchain, response, nPosts, onchain>>

NextMemo ==
    \E f \in Fingerprints, t \in MemoDays, i \in MemoIndexes : EncodeMemo(f, t, i)

SpecMemo == Init /\ [][NextMemo]_vars

\* ------------------------------------------------ OpenPayAITempo, its calls
\* A call of the contract is one transaction, so one action: it either
\* succeeds and leaves the storage it computed, or reverts and leaves the
\* storage as it was.  The receipt keeps what was called and how it ended.
\* The receipt of a call that succeeded also keeps the calls it made to the
\* payment token; a call that reverts makes none.
CallToken(fn, sender, hashes, price, status, storage, tokenCalls) ==
    /\ nTxs < MaxTxs
    /\ nTxs' = nTxs + 1
    /\ contract' = IF status = "success" THEN storage ELSE contract
    /\ receipt' = [NoReceipt EXCEPT !.fn = fn, !.sender = sender, !.hashes = hashes,
                                    !.price = price, !.status = status,
                                    !.transfers = IF status = "success" THEN tokenCalls
                                                  ELSE <<>>]
    /\ UNCHANGED <<offchain, requests, block>>

Call(fn, sender, hashes, price, status, storage) ==
    CallToken(fn, sender, hashes, price, status, storage, <<>>)

\* address(this)
this == "OpenPayAITempo"

\* part_001 11-14: what a call of the token moves.  transfer and
\* transferWithMemo take the amount from their caller, transferFrom from the
\* account it names.
transferWithMemo(caller, to, amount) == [from |-> caller, to |-> to, amount |-> amount]
transfer(caller, to, amount)         == [from |-> caller, to |-> to, amount |-> amount]
transferFrom(caller, from, to, amount) == [from |-> from, to |-> to, amount |-> amount]

RECURSIVE balanceChange(_, _)
\* the change of balanceOf(account) made by a sequence of token calls
balanceChange(account, tokenCalls) ==
    IF tokenCalls = <<>> THEN 0
    ELSE LET t == Head(tokenCalls)
         IN  (IF t.to = account THEN t.amount ELSE 0)
             - (IF t.from = account THEN t.amount ELSE 0)
             + balanceChange(account, Tail(tokenCalls))

\* part_001 314-320
resetDailySpendingIfNeeded(c) ==
    LET currentDay == block.timestamp \div oneDay
    IN  IF currentDay > c.lastResetDay THEN [c EXCEPT !.lastResetDay = currentDay]
        ELSE c

\* the new term added to the expiry of the license held so far
recordLicenseStacked(c, sender, contentHash) ==
    LET content == c.contentRegistry[contentHash]
    IN  [c EXCEPT !.licenses[<<sender, contentHash>>] =
                      [expiry |-> @.expiry + thirtyDays,
                       pricePaid |-> content.price, active |-> TRUE],
                  !.contentRegistry[contentHash].totalRevenue = @ + content.price,
                  !.contentRegistry[contentHash].accessCount = @ + 1]

\* part_001 168-176 and 210-218: the license of one fingerprint is recorded
recordLicense(c, sender, contentHash) ==
    LET content == c.contentRegistry[contentHash]
    IN  [c EXCEPT !.licenses[<<sender, contentHash>>] =
                      [expiry |-> block.timestamp + thirtyDays,
                       pricePaid |-> content.price, active |-> TRUE],
                  !.contentRegistry[contentHash].totalRevenue = @ + content.price,
                  !.contentRegistry[contentHash].accessCount = @ + 1]

\* part_001 120-140
registerContentOnChain(sender, contentHash, price, contentURI) ==
    LET status == IF contract.contentRegistry[contentHash].contentOwner # address0
                  THEN "Content already registered"
                  ELSE IF ~(price > 0) THEN "Price must be > 0"
                  ELSE "success"
        storage == [contract EXCEPT
                      !.contentRegistry[contentHash] =
                          [price |-> price, contentOwner |-> sender,
                           contentURI |-> contentURI, active |-> TRUE,
                           totalRevenue |-> 0, accessCount |-> 0],
                      !.creatorContents[sender] = Append(@, contentHash)]
    IN  Call("registerContent", sender, <<contentHash>>, price, status, storage)

\* part_001 155-162: the agent's limit; no limit is set while it is 0
limitExceeded(c, sender, amount) ==
    /\ c.agentSpendingLimits[sender] > 0
    /\ ~(c.agentSpentToday[sender] + amount <= c.agentSpendingLimits[sender])

spend(c, sender, amount) ==
    IF c.agentSpendingLimits[sender] > 0
    THEN [c EXCEPT !.agentSpentToday[sender] = @ + amount]
    ELSE c

\* part_001 146-185; transferred: the token's transferWithMemo did not revert
purchaseLicense(sender, contentHash, transferred) ==
    LET content == contract.contentRegistry[contentHash]
        price == content.price
        c1 == resetDailySpendingIfNeeded(contract)
        status == IF content.contentOwner = address0 THEN "Content not registered"
                  ELSE IF ~content.active THEN "Content not active"
                  ELSE IF limitExceeded(c1, sender, price) THEN "Daily spending limit exceeded"
                  ELSE IF ~transferred THEN "transfer reverted"
                  ELSE "success"
        storage == recordLicense(spend(c1, sender, price), sender, contentHash)
    IN  CallToken("purchaseLicense", sender, <<contentHash>>, 0, status, storage,
                  <<transferWithMemo(this, content.contentOwner, price)>>)

RECURSIVE recordLicenses(_, _, _)
\* part_001 203-219: the loop of purchaseBatchLicense
recordLicenses(c, sender, contentHashes) ==
    IF contentHashes = <<>> THEN c
    ELSE recordLicenses(recordLicense(c, sender, Head(contentHashes)), sender,
                        Tail(contentHashes))

RECURSIVE batchTotal(_, _)
batchTotal(c, contentHashes) ==
    IF contentHashes = <<>> THEN 0
    ELSE c.contentRegistry[Head(contentHashes)].price + batchTotal(c, Tail(contentHashes))

RECURSIVE batchRequireFound(_, _)
\* the loop without its second require
batchRequireFound(c, contentHashes) ==
    IF contentHashes = <<>> THEN "success"
    ELSE LET content == c.contentRegistry[Head(contentHashes)]
         IN  IF content.contentOwner = address0 THEN "Content not found"
             ELSE batchRequireFound(c, Tail(contentHashes))

RECURSIVE batchRequire(_, _)
\* part_001 205-206: the first require of the loop that fails
batchRequire(c, contentHashes) ==
    IF contentHashes = <<>> THEN "success"
    ELSE LET content == c.contentRegistry[Head(contentHashes)]
         IN  IF content.contentOwner = address0 THEN "Content not found"
             ELSE IF ~content.active THEN "Content not active"
             ELSE batchRequire(c, Tail(contentHashes))

\* part_001 234-238: the loop that pays the content owners
distribute(contentHashes) ==
    [i \in 1..Len(contentHashes) |->
        transfer(this, contract.contentRegistry[contentHashes[i]].contentOwner,
                 contract.contentRegistry[contentHashes[i]].price)]

\* part_001 191-246; transferred: none of the token's transfers reverted
purchaseBatchLicense(sender, contentHashes, transferred) ==
    LET c1 == resetDailySpendingIfNeeded(contract)
        totalPrice == batchTotal(contract, contentHashes)
        c2 == recordLicenses(c1, sender, contentHashes)
        status == IF contentHashes = <<>> THEN "Empty batch"
                  ELSE IF batchRequire(contract, contentHashes) # "success"
                       THEN batchRequire(contract, contentHashes)
                  ELSE IF limitExceeded(c2, sender, totalPrice)
                       THEN "Daily spending limit exceeded"
                  ELSE IF ~transferred THEN "transfer reverted"
                  ELSE "success"
        storage == spend(c2, sender, totalPrice)
    IN  CallToken("purchaseBatchLicense", sender, contentHashes, 0, status, storage,
                  <<transferFrom(this, sender, this, totalPrice)>> \o distribute(contentHashes))

\* part_001 251-257
hasValidLicense(user, contentHash) ==
    LET license == contract.licenses[<<user, contentHash>>]
    IN  license.active /\ license.expiry > block.timestamp

\* hasValidLicense is called (a view: the storage is only read)
HasValidLicense(user, contentHash) ==
    /\ nTxs < MaxTxs
    /\ nTxs' = nTxs + 1
    /\ receipt' = [NoReceipt EXCEPT !.fn = "hasValidLicense", !.sender = user,
                                    !.hashes = <<contentHash>>, !.status = "success",
                                    !.result = hasValidLicense(user, contentHash)]
    /\ UNCHANGED <<offchain, requests, contract, block>>

\* any caller passes, once the content is registered
onlyRegisteredContent(sender, contentHash) ==
    contract.contentRegistry[contentHash].contentOwner # address0

\* part_001 97-100
onlyContentOwner(sender, contentHash) ==
    contract.contentRegistry[contentHash].contentOwner = sender

\* part_001 262-269
updatePrice(sender, contentHash, newPrice) ==
    LET status == IF ~onlyContentOwner(sender, contentHash) THEN "Not content owner"
                  ELSE IF ~(newPrice > 0) THEN "Price must be > 0"
                  ELSE "success"
        storage == [contract EXCEPT !.contentRegistry[contentHash].price = newPrice]
    IN  Call("updatePrice", sender, <<contentHash>>, newPrice, status, storage)

\* part_001 274-276
toggleContentStatus(sender, contentHash) ==
    LET status == IF ~onlyContentOwner(sender, contentHash) THEN "Not content owner"
                  ELSE "success"
        storage == [contract EXCEPT !.contentRegistry[contentHash].active = ~@]
    IN  Call("toggleContentStatus", sender, <<contentHash>>, 0, status, storage)

\* part_001 281-284
setAgentSpendingLimit(sender, agent, dailyLimit) ==
    LET status == IF sender # owner THEN "Not owner" ELSE "success"
        storage == [contract EXCEPT !.agentSpendingLimits[agent] = dailyLimit]
    IN  Call("setAgentSpendingLimit", sender, <<>>, dailyLimit, status, storage)

\* block.timestamp advances
NextBlock(d) ==
    /\ block.number < MaxBlocks
    /\ block' = [timestamp |-> block.timestamp + d, number |-> block.number + 1]
    /\ UNCHANGED <<offchain, requests, contract, receipt, nTxs>>

\* ----------------------------------------------------------- the two ledgers
\* The ledger of content and licenses is kept twice: in the backend's memory
\* and in the contract.  A behaviour of SpecLedger exercises one of them:
\* the backend by requests sent to its routes, or the contract by calls.
OnBackend  == nTxs = 0 /\ block.number = 0
OnContract == nRegs = 0 /\ nPosts = 0 /\ nTicks = 0

NextLedger ==
    \/ \E d \in {oneDay, licensePeriod} : OnBackend /\ Tick(d)
    \/ \E h \in Hashes, p \in RegPrices : OnBackend /\ Register(h, p)
    \/ \E h \in Hashes : OnBackend /\ PostLicenseBuy(agentAddress, h)
    \/ \E hs \in BatchInputs : OnBackend /\ PostLicenseBatch(agentAddress, hs)
    \/ \E h \in Hashes : OnBackend /\ GetLicenseCheck(agentAddress, h)
    \/ \E d \in {oneDay, thirtyDays} : OnContract /\ NextBlock(d)
    \/ \E a \in Accounts, h \in Hashes, p \in NewPrices, u \in URIs :
          OnContract /\ registerContentOnChain(a, h, p, u)
    \/ \E a \in Accounts, h \in Hashes, t \in BOOLEAN :
          OnContract /\ purchaseLicense(a, h, t)
    \/ \E a \in Accounts, hs \in BatchInputs, t \in BOOLEAN :
          OnContract /\ purchaseBatchLicense(a, hs, t)
    \/ \E a \in Accounts, h \in Hashes : OnContract /\ HasValidLicense(a, h)
    \/ \E a \in Accounts, h \in Hashes, p \in NewPrices :
          OnContract /\ updatePrice(a, h, p)
    \/ \E a \in Accounts, h \in Hashes : OnContract /\ toggleContentStatus(a, h)
    \/ \E a \in Accounts, l \in Limits :
          OnContract /\ setAgentSpendingLimit(a, agentAddress, l)

\* the agent makes no call; its configuration is the constructor's default
InitLedger ==
    /\ Init
    /\ config = [enableParallel |-> TRUE, enableBatching |-> TRUE]

SpecLedger == InitLedger /\ [][NextLedger]_vars

\* ================================================================ claims
\* what a step does to the call in slot s
Steps(s)    == calls'[s] # calls[s]
Finishes(s) == calls[s].pc # "done" /\ calls'[s].pc = "done" /\ Steps(s)
Rejected(s, errors) == Finishes(s) /\ calls'[s].outcome = "threw" /\ calls'[s].error \in errors

DailyErrors  == {"Daily spending limit would be exceeded",
                 "Batch would exceed daily spending limit"}
BudgetErrors == DailyErrors \cup {"Price exceeds max"}

RECURSIVE SumAmounts(_)
SumAmounts(rail) ==
    IF rail = <<>> THEN 0 ELSE Head(rail).amount + SumAmounts(Tail(rail))

\* the transfers the call in slot s hands to the rail in this step
Submits(s) == SubSeq(calls'[s].rail, Len(calls[s].rail) + 1, Len(calls'[s].rail))

Count(seq, P(_)) == Cardinality({k \in 1..Len(seq) : P(seq[k])})

\* ---- C1
\* C1: with the agent's calls running one after another, spentToday never
\* exceeds dailySpendingLimit; transfers are handed to the rail only if,
\* added to spentToday, they stay within the limit (a purchase that would
\* exceed it is rejected instead), and the rejection commits nothing:
\* spentToday is what it was, and the rejected call has added nothing to it.
\* (spentToday is compared with its value after the window reset every call
\* performs on entry.)
C1_DailyCeiling ==
    [][ /\ spentToday' <= dailySpendingLimit
        /\ \A s \in Slots :
              /\ Steps(s) /\ Len(calls'[s].rail) > Len(calls[s].rail)
                    => spentToday + SumAmounts(Submits(s)) <= dailySpendingLimit
              /\ Rejected(s, DailyErrors)
                    => /\ spentToday' = spentToday
                       /\ calls[s].op = "single" \/ calls[s].pc = "lookup"
                             => calls[s].committed = 0 /\ calls[s].rail = <<>>
      ]_vars

\* a purchase was rejected for the daily limit after an earlier one was paid
C1_Witness ==
    \E s \in Slots :
        /\ calls[s].pc = "done"
        /\ calls[s].op = "single"
        /\ calls[s].error = "Daily spending limit would be exceeded"
        /\ spentToday = 6
        /\ Len(purchaseHistory) = 1

\* ---- C2
\* C2: overlapping purchase calls of one agent never leave spentToday above
\* dailySpendingLimit (the check and the commit act as one atomic step).
C2_NoJointOvershoot == spentToday <= dailySpendingLimit

\* ---- C3
\* C3: a license-record request names a fingerprint only for items whose
\* transfer the rail has confirmed: in the request a call is waiting for,
\* no fingerprint occurs more often than the call has confirmed transfers
\* for it, whatever the strategy.
C3_RecordOnlyConfirmed ==
    \A s \in Slots : \A h \in Hashes :
        LET c == calls[s]
            IsH(x) == x = h
            ConfirmedH(t) == t.hash = h /\ t.status = "confirmed"
        IN  /\ Count(c.notified, IsH) <= Count(c.rail, ConfirmedH)
            /\ c.recorded <= Count(c.rail, LAMBDA t : t.status = "confirmed")

\* a parallel batch with one failed and one confirmed transfer is notifying
C3_Witness ==
    \E s \in Slots :
        /\ calls[s].pc = "notifyBatch"
        /\ calls[s].method = "parallel"
        /\ \E k \in 1..Len(calls[s].rail) : calls[s].rail[k].status = "failed"
        /\ Len(calls[s].notified) = 1

\* ---- C4
\* C4: when the atomic-batch strategy fails (the bundle is rejected, or its
\* receipt is not success), the call has recorded no license, has added
\* nothing to spentToday, has appended no PurchaseRecord and has sent no
\* license-record request, and the failing step changes none of spentToday,
\* purchaseHistory, licenses and contentRegistry.
C4_AtomicAllOrNothing ==
    [][ \A s \in Slots :
          /\ calls'[s].method = "atomic-batch"
                /\ (\E k \in 1..Len(calls'[s].rail) : calls'[s].rail[k].status # "confirmed")
             => /\ calls'[s].committed = 0
                /\ calls'[s].appended = 0
                /\ calls'[s].recorded = 0
                /\ calls'[s].notified = <<>>
          /\ calls[s].method = "atomic-batch" /\ Finishes(s) /\ calls'[s].outcome = "threw"
                /\ calls[s].pc \in {"sendTransaction", "waitReceipt"}
             => /\ calls[s].committed = 0
                /\ calls[s].appended = 0
                /\ calls[s].recorded = 0
                /\ calls[s].notified = <<>>
                /\ UNCHANGED <<spentToday, purchaseHistory, licenses, contentRegistry>>
      ]_vars

\* an atomic batch of two fingerprints failed at its receipt
C4_Witness ==
    \E s \in Slots :
        /\ calls[s].pc = "done"
        /\ calls[s].method = "atomic-batch"
        /\ Len(calls[s].hashes) = 2
        /\ calls[s].error = "Batch transaction failed"
        /\ \A h \in Hashes : contentRegistry[h].registered /\ contentRegistry[h].totalRevenue = 0
        /\ \A h \in Hashes : ~licenses[<<agentAddress, h>>].exists
        /\ spentToday = 0
        /\ purchaseHistory = <<>>

\* ---- C5
\* C5: a parallel batch of n transfers of which k fail returns n-k successes
\* and k failures, has added the n-k confirmed amounts to spentToday, and has
\* appended exactly n-k PurchaseRecords to purchaseHistory.
C5_ParallelPartial ==
    [][ \A s \in Slots :
          calls[s].method = "parallel" /\ Finishes(s) /\ calls'[s].outcome = "success"
          => LET purchases == calls'[s].purchases
                 n == Len(calls[s].contentInfos)
                 ok == Cardinality(Successful(purchases))
             IN  /\ Len(purchases) = n
                 /\ \A k \in 1..n : purchases[k] \in {"success", "failed"}
                 /\ totalPurchases' = totalPurchases - calls[s].appended + ok
      ]_vars

\* ---- C6
\* C6: when the sequential strategy ends, its result holds one outcome for
\* every item of the batch: no failure of one item keeps a later item from
\* being attempted.
C6_SequentialEveryItem ==
    [][ \A s \in Slots :
          calls[s].method = "sequential" /\ Finishes(s)
          => Len(calls'[s].purchases) = Len(calls[s].contentInfos)
      ]_vars

C8_PerItemCeiling ==
    \A s \in Slots : \A k \in 1..Len(calls[s].rail) :
        calls[s].rail[k].amount <= maxPricePerItem

Answers(route)  == nPosts' # nPosts /\ response'.route = route
Called(fns)     == nTxs' # nTxs /\ receipt'.fn \in fns
Succeeded(fns)  == Called(fns) /\ receipt'.status = "success"
Purchases       == {"purchaseLicense", "purchaseBatchLicense"}

\* how often fingerprint h is issued by a request: the items naming h, of
\* those the flags in issued mark
Issues(hashes, issued, h) ==
    Cardinality({k \in 1..Len(hashes) : hashes[k] = h /\ issued[k]})
All(hashes) == [k \in 1..Len(hashes) |-> TRUE]

C12_FreshExpiry ==
    [][ /\ \A h \in Hashes :
              LET k == <<agentAddress, h>>
              IN  /\ licenses'[k] # licenses[k]
                     => licenses'[k].exists /\ licenses'[k].expiry = now + 30 * oneDay
                  /\ (Answers("buy") \/ Answers("batch")) /\ response'.status = 200
                        /\ Issues(response'.hashes, response'.results, h) > 0
                     => licenses'[k].exists /\ licenses'[k].expiry = now + 30 * oneDay
        /\ \A k \in Accounts \X Hashes :
              /\ contract'.licenses[k] # contract.licenses[k]
                 => /\ contract'.licenses[k].active
                    /\ contract'.licenses[k].expiry = block.timestamp + 30 * oneDay
              /\ Succeeded(Purchases) /\ receipt'.sender = k[1]
                    /\ Issues(receipt'.hashes, All(receipt'.hashes), k[2]) > 0
                 => /\ contract'.licenses[k].active
                    /\ contract'.licenses[k].expiry = block.timestamp + 30 * oneDay
      ]_vars

\* a license bought at time 0 was bought again a day later: it expires 30
\* days after the second purchase
C12_Witness ==
    /\ block.timestamp = oneDay
    /\ receipt.fn = "purchaseLicense"
    /\ receipt.status = "success"
    /\ contract.contentRegistry[receipt.hashes[1]].accessCount = 2
    /\ contract.licenses[<<receipt.sender, receipt.hashes[1]>>].expiry = 31 * oneDay

\* ---- C13
\* C13: every license issued, by the single path and by the batch path, of
\* the backend and of the contract, adds the content's price to its revenue
\* and exactly 1 to its accessCount.
C13_IssuanceCounted ==
    [][ /\ (Answers("buy") \/ Answers("batch")) /\ response'.status = 200
           => \A h \in Hashes :
                 LET n == Issues(response'.hashes, response'.results, h)
                 IN  /\ contentRegistry'[h].totalRevenue =
                           contentRegistry[h].totalRevenue + n * contentRegistry[h].price
                     /\ contentRegistry'[h].accessCount = contentRegistry[h].accessCount + n
        /\ Succeeded(Purchases)
           => \A h \in Hashes :
                 LET n == Issues(receipt'.hashes, All(receipt'.hashes), h)
                     content == contract.contentRegistry[h]
                 IN  /\ contract'.contentRegistry[h].totalRevenue =
                           content.totalRevenue + n * content.price
                     /\ contract'.contentRegistry[h].accessCount = content.accessCount + n
      ]_vars

\* ---- C14
\* C14: recording a license for an unregistered fingerprint fails with
\* "not found", for an inactive content with "not active", and then no
\* license is created or overwritten and no revenue or accessCount changes.
\* The backend refuses the single request with 404 and marks the item of a
\* batch as failed; its contents are never inactive.  The contract reverts
\* the whole call.
C14_NoRecordForMissing ==
    [][ /\ \A h \in Hashes : contentRegistry[h].registered => contentRegistry[h].active
        /\ Answers("buy") /\ ~contentRegistry[response'.hashes[1]].registered
           => response'.status = 404 /\ UNCHANGED <<licenses, contentRegistry>>
        /\ Answers("batch")
           => \A k \in 1..Len(response'.hashes) :
                 LET h == response'.hashes[k]
                 IN  ~contentRegistry[h].registered
                     => /\ ~response'.results[k]
                        /\ licenses'[<<agentAddress, h>>] = licenses[<<agentAddress, h>>]
                        /\ contentRegistry'[h] = contentRegistry[h]
        /\ Called(Purchases)
           => LET entries == [k \in 1..Len(receipt'.hashes) |->
                                 contract.contentRegistry[receipt'.hashes[k]]]
                  missing  == {k \in 1..Len(entries) : entries[k].contentOwner = address0}
                  inactive == {k \in 1..Len(entries) : entries[k].contentOwner # address0
                                                       /\ ~entries[k].active}
              IN  /\ missing # {} \/ inactive # {}
                     => /\ receipt'.status \in {"Content not registered", "Content not found",
                                               "Content not active"}
                        /\ contract' = contract
                  /\ missing # {} /\ inactive = {}
                     => receipt'.status \in {"Content not registered", "Content not found"}
                  /\ missing = {} /\ inactive # {}
                     => receipt'.status = "Content not active"
      ]_vars

\* a batch of an active and a disabled content was refused by the contract
C14_Witness ==
    /\ receipt.fn = "purchaseBatchLicense"
    /\ receipt.status = "Content not active"
    /\ Len(receipt.hashes) = 2
    /\ contract.contentRegistry[receipt.hashes[1]].active
    /\ ~contract.contentRegistry[receipt.hashes[2]].active
    /\ \A h \in Hashes : contract.contentRegistry[h].accessCount = 0
    /\ \A k \in Accounts \X Hashes : ~contract.licenses[k].active

\* ---- C15
\* C15: a registration for a fingerprint that is already registered is
\* refused and leaves the entry as it was (backend and contract alike), and
\* the owner of a registered fingerprint never changes.
C15_RegisteredOnce ==
    [][ /\ nRegs' # nRegs
           => \A h \in Hashes :
                 contentRegistry[h].registered => contentRegistry'[h] = contentRegistry[h]
        /\ Called({"registerContent"})
              /\ contract.contentRegistry[receipt'.hashes[1]].contentOwner # address0
           => receipt'.status = "Content already registered" /\ contract' = contract
        /\ \A h \in Hashes :
              contract.contentRegistry[h].contentOwner # address0
              => contract'.contentRegistry[h].contentOwner
                    = contract.contentRegistry[h].contentOwner
      ]_vars

\* ---- C16
\* C16: every registered entry, of the backend and of the contract, has a
\* price > 0: a registration with price <= 0 creates no entry, and
\* updatePrice with newPrice <= 0 is refused and leaves the price.
C16_PricePositive ==
    [][ /\ \A h \in Hashes :
              /\ contentRegistry'[h].registered => contentRegistry'[h].price > 0
              /\ contract'.contentRegistry[h].contentOwner # address0
                 => contract'.contentRegistry[h].price > 0
        /\ Called({"registerContent", "updatePrice"}) /\ receipt'.price <= 0
           => receipt'.status # "success" /\ contract' = contract
      ]_vars

\* ---- C17
\* C17: updatePrice and toggleContentStatus called by anyone but the
\* entry's owner (an unregistered fingerprint has none) are refused with
\* "Not content owner" and change nothing; called by the owner,
\* toggleContentStatus flips the active flag and nothing else, and
\* updatePrice changes the price and nothing else.
C17_OwnerOnly ==
    [][ Called({"updatePrice", "toggleContentStatus"})
        => LET h == receipt'.hashes[1]
               content == contract.contentRegistry[h]
           IN  IF receipt'.sender # content.contentOwner
               THEN receipt'.status = "Not content owner" /\ contract' = contract
               ELSE IF receipt'.fn = "toggleContentStatus"
               THEN /\ receipt'.status = "success"
                    /\ contract' = [contract EXCEPT
                                      !.contentRegistry[h].active = ~content.active]
               ELSE contract' = [contract EXCEPT
                                   !.contentRegistry[h].price =
                                       IF receipt'.status = "success" THEN receipt'.price
                                       ELSE content.price]
      ]_vars

\* somebody else than its owner tried to disable a registered content
C17_Witness ==
    /\ receipt.fn = "toggleContentStatus"
    /\ receipt.status = "Not content owner"
    /\ contract.contentRegistry[receipt.hashes[1]].contentOwner \notin {address0, receipt.sender}
    /\ contract.contentRegistry[receipt.hashes[1]].active

\* ---- C18
\* C18: a purchase call that starts at now >= lastReset + 24h, also at
\* exactly now = lastReset + 24h, makes its ceiling check against
\* spentToday = 0 and sets lastReset to now.
C18_RollingReset ==
    [][ nCalls' # nCalls /\ now >= lastReset + oneDay
        => spentToday' = 0 /\ lastReset' = now
      ]_vars

\* ---- C19
\* C19: in the atomic strategy, a fingerprint whose price lookup fails makes
\* the whole purchaseBatch call fail: no bundle goes to the rail, nothing is
\* added to spentToday and no license is recorded.
C19_AtomicAbortsOnMissing ==
    \A s \in Slots :
        LET c == calls[s]
        IN  c.method = "atomic-batch" /\ Len(c.contentInfos) < Len(c.toPurchase)
            => c.rail = <<>> /\ c.committed = 0 /\ c.recorded = 0

\* ---- C20
\* C20: in the sequential and the parallel strategy, a fingerprint whose
\* price lookup fails is left out and the batch goes on: the rail gets no
\* transfer for it, and when the call ends every other fingerprint it had
\* to purchase has been attempted.
C20_DropAndGoOn ==
    [][ \A s \in Slots :
          LET c == calls[s]
          IN  /\ \A k \in 1..Len(c.rail) : contentRegistry[c.rail[k].hash].registered
              /\ c.method \in {"sequential", "parallel"} /\ Finishes(s)
                    /\ Len(c.contentInfos) < Len(c.toPurchase)
                 => IF c.method = "parallel" THEN Len(c.rail) = Len(c.contentInfos)
                    ELSE c.i = Len(c.contentInfos)
      ]_vars

C23_ExpectedAreResults ==
    [][ \A s \in Slots :
          LET c == calls[s]
          IN  /\ Finishes(s)
              /\ \/ c.pc = "hasLicense" /\ checkLicense(agentAddress, c.contentHash)
                       /\ ~Forced(c)
                 \/ c.pc = "checkContent" /\ ~contentRegistry[c.contentHash].registered
              => calls'[s].outcome # "threw"
      ]_vars

\* ---- C24
\* C24: whatever the agent's configuration, a purchaseBatch call with
\* atomic: true that ends in an exception has purchased nothing: no
\* transfer of it was confirmed, it added nothing to spentToday and no
\* license was recorded for it.
C24_AtomicThrowsNothingBought ==
    [][ \A s \in Slots :
          LET c == calls[s]
          IN  c.op = "batch" /\ c.atomic /\ Finishes(s) /\ calls'[s].outcome = "threw"
              => /\ \A k \in 1..Len(c.rail) : c.rail[k].status # "confirmed"
                 /\ c.committed = 0
                 /\ c.recorded = 0
      ]_vars

\* ---- C27
\* C27: _encodeMemo is a function of (fingerprint, timestamp, item index)
\* that gives exactly 32 bytes for every input: a longer text is cut, a
\* shorter one is padded with zero bytes, and it does not fail, whatever the
\* fingerprint's length, a full 66-character fingerprint included.
C27_MemoIs32Bytes ==
    memo.called
    => /\ memo.result = encodeMemo(memo.contentHash, memo.timestamp, memo.index)
       /\ ~memo.result.threw
       /\ Len(memo.result.bytes) = 32

\* ---- C25
\* C25: the parallel strategy joins: the call goes on to the license-record
\* request, or ends, only when every transfer it has handed to the rail has
\* its final outcome; the failure of one item does not end the call while
\* transfers of other items are in flight.
C25_ParallelJoins ==
    [][ \A s \in Slots :
          LET c == calls[s]
              Pending(rail) == {k \in 1..Len(rail) : rail[k].status = "pending"}
          IN  /\ Steps(s) /\ calls'[s].method = "parallel"
              /\ c.pc \notin {"notifyBatch", "done"}
              /\ calls'[s].pc \in {"notifyBatch", "done"}
              => /\ Cardinality(Pending(c.rail)) <= 1
                 /\ Pending(calls'[s].rail) = {}
      ]_vars

\* ---- C26
\* C26: in the parallel strategy every item's transfer is handed to the rail
\* with a lane of its own (nonceKey, not the default lane 0): the lanes of
\* the transfers of one batch are pairwise different.
C26_DistinctLanes ==
    \A s \in Slots :
        LET c == calls[s]
        IN  c.method = "parallel"
            => \A j, k \in 1..Len(c.rail) :
                  /\ c.rail[k].nonceKey # 0
                  /\ j # k => c.rail[j].nonceKey # c.rail[k].nonceKey

\* two transfers of one batch in flight at once
C26_Witness ==
    \E s \in Slots :
        /\ calls[s].pc = "parallel"
        /\ Len(calls[s].rail) = 2
        /\ \A k \in 1..2 : calls[s].rail[k].status = "pending"

\* ============================================ claims: the access gateway
\* the access route's answer of this step, and the entry it was asked for
Access == Answers("access")
Asked  == contentRegistry[response'.hashes[1]]

\* ---- C22
\* C22 (as stated): the access route answers NotFound (404) for content
\* not registered, Forbidden (403) for inactive content whoever asks,
\* Allowed (200) for a caller that is not automated, and for an automated
\* caller Allowed only if the identity it presents holds a valid license,
\* otherwise PaymentRequired (402) with the current price.
C22_FourOutcomes ==
    [][ Access =>
          LET r == response'
          IN  /\ ~Asked.registered => r.status = 404
              /\ Asked.registered /\ ~Asked.active => r.status = 403
              /\ Asked.registered /\ Asked.active /\ ~r.isAICrawler
                    => r.status = 200 /\ r.allowed
              /\ Asked.registered /\ Asked.active /\ r.isAICrawler
                    => \/ /\ r.status = 200 /\ r.allowed
                          /\ r.agent # "" /\ checkLicense(r.agent, r.hashes[1])
                       \/ r.status = 402 /\ ~r.allowed /\ r.price = Asked.price
      ]_vars

\* C22 (amended): as above, except that an automated caller that presents
\* an identity and a proof whose timestamp is more than five minutes off is
\* answered Forbidden (403), licensed or not; it is Allowed exactly if it
\* presents an identity holding a valid license together with a proof, and
\* is answered PaymentRequired with the current price in every other case.
C22_FourOutcomesStaleForbidden ==
    [][ Access =>
          LET r == response'
              stale == r.agent # "" /\ r.proof = "stale"
              licensed == r.agent # "" /\ r.proof = "fresh"
                          /\ checkLicense(r.agent, r.hashes[1])
          IN  /\ ~Asked.registered => r.status = 404
              /\ Asked.registered /\ ~Asked.active => r.status = 403
              /\ Asked.registered /\ Asked.active /\ ~r.isAICrawler
                    => r.status = 200 /\ r.allowed
              /\ Asked.registered /\ Asked.active /\ r.isAICrawler
                    => /\ stale => r.status = 403 /\ ~r.allowed
                       /\ licensed => r.status = 200 /\ r.allowed
                       /\ ~stale /\ ~licensed
                             => r.status = 402 /\ ~r.allowed /\ r.price = Asked.price
      ]_vars

\* an automated caller holding a valid license presented a stale proof and
\* was answered Forbidden
C22_Witness ==
    /\ response.route = "access" /\ response.isAICrawler
    /\ response.status = 403 /\ response.proof = "stale"
    /\ checkLicense(response.agent, response.hashes[1])

\* ---- C28
\* C28: no ledger operation (registration, registration again, license
\* record, access request, read) lowers the revenue or the access count of
\* a content entry, and no entry is ever deleted; in the backend and in the
\* contract.
C28_CountersMonotonic ==
    [][ \A h \in Hashes :
          /\ contentRegistry[h].registered => contentRegistry'[h].registered
          /\ contentRegistry'[h].totalRevenue >= contentRegistry[h].totalRevenue
          /\ contentRegistry'[h].accessCount >= contentRegistry[h].accessCount
          /\ contract.contentRegistry[h].contentOwner # address0
                => contract'.contentRegistry[h].contentOwner # address0
          /\ contract'.contentRegistry[h].totalRevenue
                >= contract.contentRegistry[h].totalRevenue
          /\ contract'.contentRegistry[h].accessCount
                >= contract.contentRegistry[h].accessCount
      ]_vars

\* ---- C29
\* C29: only registration and license records (and, in the contract, price
\* updates and active toggles) change the ledger: the content query, the
\* license check, the access check and the statistics queries leave every
\* content entry and every license as they are.
C29_ReadsChangeNothing ==
    [][ /\ (\E route \in {"content", "check", "access", "stats", "overview"} :
                Answers(route))
            => UNCHANGED <<contentRegistry, licenses>>
        /\ contentRegistry' # contentRegistry \/ licenses' # licenses
            => nRegs' # nRegs \/ Answers("buy") \/ Answers("batch")
      ]_vars

\* ---- C30
\* C30: license records for one content entry are serialized: after n
\* records for it by n different clients, in whatever order the backend
\* handles them, its totalRevenue is n times the price and each of the n
\* clients has its license; no record is lost.
C30_NoLostRecord ==
    LET Holders(h) == {a \in Payers : licenses[<<a, h>>].exists}
    IN  /\ \A h \in Hashes :
              contentRegistry[h].totalRevenue
                  = Cardinality(Holders(h)) * contentRegistry[h].price
        /\ Cardinality({k \in Payers \X Hashes : licenses[k].exists}) = nPosts

\* three clients have recorded a license for the same content
C30_Witness ==
    \E h \in Hashes :
        /\ \A a \in Payers : licenses[<<a, h>>].exists
        /\ contentRegistry[h].totalRevenue = 3 * contentRegistry[h].price
        /\ contentRegistry[h].price > 0

\* ============================================= claims: strategies, amounts
\* ---- C34
\* C34: within one purchaseBatch call a fingerprint is paid for at most
\* once, also when the list given names it more than once: the call hands
\* to the rail at most one transfer (or bundled instruction) per
\* fingerprint.
C34_PaidOncePerCall ==
    \A s \in Slots : \A h \in Hashes :
        LET c == calls[s]
            ForH(t) == t.hash = h
        IN  c.op = "batch" => Count(c.rail, ForH) <= 1

\* ---- C35
\* C35: purchaseBatch never goes to the rail with no item: when the price
\* loop has dropped every fingerprint, no strategy submits a transfer or a
\* bundle and no license-record request is sent.
C35_NoEmptySubmission ==
    \A s \in Slots :
        LET c == calls[s]
        IN  c.op = "batch"
            /\ c.pc \in {"parallel", "sendTransaction", "waitReceipt", "notifyBatch"}
            => c.contentInfos # <<>>

\* ---- C36
\* C36: a purchaseBatch call runs one strategy: the parallel one iff
\* enableParallel is set and atomic was not requested, else the
\* atomic-batch one iff enableBatching is set, else the sequential one; a
\* call that requests atomic never runs the parallel strategy, and a call
\* does not change strategy once it has one.
C36_OneStrategy ==
    [][ \A s \in Slots :
          LET c == calls'[s]
              chosen == IF config.enableParallel /\ ~c.atomic THEN "parallel"
                        ELSE IF config.enableBatching THEN "atomic-batch"
                        ELSE "sequential"
          IN  c.op = "batch"
              => /\ c.method # "none" => c.method = chosen
                 /\ c.pc = "parallel" => chosen = "parallel"
                 /\ c.pc \in {"sendTransaction", "waitReceipt"} => chosen = "atomic-batch"
                 /\ c.pc \in {"hasLicense", "checkContent", "transferSync", "buy"}
                       => chosen = "sequential"
                 /\ calls[s].op = "batch" /\ calls[s].method # "none"
                       /\ calls[s].pc # "done"
                       => c.method = calls[s].method
      ]_vars

\* a call that requested atomic, with enableParallel set, has its bundle
\* at the rail
C36_Witness ==
    \E s \in Slots :
        /\ calls[s].pc = "waitReceipt" /\ calls[s].atomic
        /\ config.enableParallel /\ config.enableBatching
        /\ Len(calls[s].rail) = 2

\* ---- C37
\* C37: what the backend records for a license is what the rail
\* transferred for it: the license's pricePaid is the amount of the
\* confirmed transfer and the content's totalRevenue grows by that amount,
\* also when the content is registered again, at another price, between the
\* agent's price lookup and its license-record request.
C37_RecordedIsTransferred ==
    [][ \A s \in Slots :
          LET c == calls[s]
              h == c.contentHash
          IN  c.pc = "buy" /\ Steps(s) /\ licenses' # licenses
              => /\ licenses'[<<agentAddress, h>>].pricePaid = c.price
                 /\ contentRegistry'[h].totalRevenue
                       = contentRegistry[h].totalRevenue + c.price
      ]_vars

\* ---- C31
\* C31: the atomic-batch strategy submits one bundle with exactly one
\* transfer instruction per item, and the i-th instruction carries the
\* i-th item's recipient (the content owner), amount (the price) and
\* tracking tag (the memo): its call data is made of these three.
C31_BundleCarriesItems ==
    [][ \A s \in Slots :
          LET c == calls'[s]
          IN  Steps(s) /\ calls[s].pc = "lookup" /\ c.pc = "sendTransaction"
              => /\ Len(c.rail) = Len(c.contentInfos)
                 /\ \A k \in 1..Len(c.rail) :
                       /\ c.rail[k].to = alphaUsd
                       /\ c.rail[k].data =
                             <<owner, c.contentInfos[k].price,
                               encodeMemo(text(c.contentInfos[k].hash), DateNow, k - 1).bytes>>
      ]_vars

\* ---- C33
\* C33: spentToday is the sum of the amounts of the transfers the rail has
\* confirmed since the last window reset.  Every step adds to spentToday
\* exactly the amounts of the transfers confirmed in it, or resets the
\* window; a failed transfer adds nothing, and a license-record request
\* that fails after the transfer was confirmed takes nothing back.
C33_SpentIsConfirmed ==
    [][ LET ConfirmedNow(s) ==
                {k \in 1..Len(calls[s].rail) :
                    /\ k <= Len(calls'[s].rail)
                    /\ calls[s].rail[k].status = "pending"
                    /\ calls'[s].rail[k].status = "confirmed"}
            FailedNow(s) ==
                {k \in 1..Len(calls[s].rail) :
                    /\ calls[s].rail[k].status = "pending"
                    /\ k <= Len(calls'[s].rail) => calls'[s].rail[k].status # "confirmed"
                    /\ k <= Len(calls'[s].rail) => calls'[s].rail[k].status # "pending"}
            Amounts(s) == SumAmounts(SelectIdx(calls[s].rail, ConfirmedNow(s), 1))
            total == Amounts(1) + Amounts(2)
        IN  /\ \/ spentToday' = spentToday + total
               \/ total = 0 /\ resetNeeded /\ spentToday' = 0 /\ lastReset' = now
            /\ (\A s \in Slots : ConfirmedNow(s) = {}) => spentToday' <= spentToday
      ]_vars

\* a purchase whose transfer was confirmed and whose license-record request
\* failed: the amount is counted
C33_Witness ==
    \E s \in Slots :
        /\ calls[s].pc = "done" /\ calls[s].error = "Network Error"
        /\ calls[s].op = "single"
        /\ spentToday = 3
        /\ Len(purchaseHistory) = 1

\* ---- C39
\* C39: on chain, a successful purchase of an agent with a nonzero daily
\* limit leaves agentSpentToday at most agentSpendingLimits; and when the day
\* counter (block.timestamp / 1 days) has advanced past lastResetDay, the
\* agent's agentSpentToday is reset to 0 before the purchase is checked and
\* counted: a purchase whose own total is within the limit is not rejected
\* for the limit, and a successful one leaves agentSpentToday at its total.
C39_ResetOnNewDay ==
    [][ \A a \in Accounts :
          LET total == batchTotal(contract, receipt'.hashes)
              newDay == block.timestamp \div oneDay > contract.lastResetDay
          IN  ( /\ Called({"purchaseLicense", "purchaseBatchLicense"})
                /\ receipt'.sender = a
                /\ contract.agentSpendingLimits[a] > 0 )
              => /\ receipt'.status = "success"
                    => contract'.agentSpentToday[a] <= contract'.agentSpendingLimits[a]
                 /\ (newDay /\ receipt'.status = "success")
                    => contract'.agentSpentToday[a] = total
                 /\ (newDay /\ total <= contract.agentSpendingLimits[a])
                    => receipt'.status # "Daily spending limit exceeded"
      ]_vars

\* ---- C38
\* C38: every successful purchaseLicense or purchaseBatchLicense of the
\* contract takes the total price of the licensed items from the buyer's
\* token balance, gives each content owner the price of its items, and
\* leaves the contract's own token balance as it was.
owed(account, c, contentHashes) ==
    batchTotal(c, SelectSeq(contentHashes,
                            LAMBDA h : c.contentRegistry[h].contentOwner = account))

C38_BuyerPaysOwners ==
    [][ ( /\ Called({"purchaseLicense", "purchaseBatchLicense"})
          /\ receipt'.status = "success" )
        => LET total == batchTotal(contract, receipt'.hashes)
           IN  /\ \A a \in Accounts :
                     balanceChange(a, receipt'.transfers)
                       = owed(a, contract, receipt'.hashes)
                         - (IF a = receipt'.sender THEN total ELSE 0)
               /\ balanceChange(this, receipt'.transfers) = 0
      ]_vars

\* ---- C32
\* C32: the access route verifies the signature: an automated caller is
\* Allowed under an identity only when the request carries a signature valid
\* for that identity and a timestamp at most 300 s off; with a missing, a
\* stale or an invalid signature it is never Allowed.
C32_SignatureVerified ==
    (response.route = "access" /\ response.isAICrawler /\ response.allowed)
        => response.agent # "" /\ response.proof = "fresh"

====
